---- MODULE Spec2Model ----
(***************************************************************************)
(* ChefGenie: the cook-mode session of a recipe (CookMode component), its  *)
(* step timer, its per-step ingredient checklist and the helpers it uses.  *)
(*                                                                         *)
(* Texts are sequences of one-character strings, so that the regular       *)
(* expressions and substring tests of the source are computed character    *)
(* by character.                                                           *)
(***************************************************************************)
EXTENDS Integers, Sequences, FiniteSets, TLC

(***************************************************************************)
(* Characters and strings                                                  *)
(***************************************************************************)

Digits == {"0", "1", "2", "3", "4", "5", "6", "7", "8", "9"}

\* \s of a JavaScript regular expression, restricted to the characters used.
Whitespace == {" ", "\t", "\n"}

IsDigit(c) == c \in Digits

DigitVal(c) ==
    CASE c = "0" -> 0 [] c = "1" -> 1 [] c = "2" -> 2 [] c = "3" -> 3
      [] c = "4" -> 4 [] c = "5" -> 5 [] c = "6" -> 6 [] c = "7" -> 7
      [] c = "8" -> 8 [] c = "9" -> 9

\* String.prototype.toLowerCase on one character.
LowerChar(c) ==
    CASE c = "A" -> "a" [] c = "B" -> "b" [] c = "C" -> "c" [] c = "D" -> "d"
      [] c = "E" -> "e" [] c = "F" -> "f" [] c = "G" -> "g" [] c = "H" -> "h"
      [] c = "I" -> "i" [] c = "J" -> "j" [] c = "K" -> "k" [] c = "L" -> "l"
      [] c = "M" -> "m" [] c = "N" -> "n" [] c = "O" -> "o" [] c = "P" -> "p"
      [] c = "Q" -> "q" [] c = "R" -> "r" [] c = "S" -> "s" [] c = "T" -> "t"
      [] c = "U" -> "u" [] c = "V" -> "v" [] c = "W" -> "w" [] c = "X" -> "x"
      [] c = "Y" -> "y" [] c = "Z" -> "z" [] OTHER -> c

toLowerCase(s) == [i \in 1..Len(s) |-> LowerChar(s[i])]

\* Whether word w, compared case-insensitively, stands in s at position i.
StartsWithAtCI(s, i, w) ==
    /\ i >= 1
    /\ i + Len(w) - 1 <= Len(s)
    /\ \A k \in 1..Len(w) : LowerChar(s[i + k - 1]) = LowerChar(w[k])

\* String.prototype.includes
includes(s, w) ==
    \E i \in 1..(Len(s) + 1) :
        /\ i + Len(w) - 1 <= Len(s)
        /\ \A k \in 1..Len(w) : s[i + k - 1] = w[k]

\* The first position at or after i that does not hold a character of set cs.
RECURSIVE SkipWhile(_, _, _)
SkipWhile(s, i, cs) ==
    IF i <= Len(s) /\ s[i] \in cs THEN SkipWhile(s, i + 1, cs) ELSE i

\* parseFloat on a string of decimal digits.
RECURSIVE parseDigits(_)
parseDigits(s) ==
    IF s = <<>> THEN 0
    ELSE 10 * parseDigits(SubSeq(s, 1, Len(s) - 1)) + DigitVal(s[Len(s)])

(***************************************************************************)
(* extractTimeInSeconds                                                    *)
(***************************************************************************)

\* "no duration": the null of extractTimeInSeconds.
NoDuration == -1

MinuteWords == {<<"m", "i", "n">>, <<"m", "i", "n", "u", "t", "e">>}
HourWords == {<<"h", "r">>, <<"h", "o", "u", "r">>}

\* The position after the group (\d+(?:-\d+)?) matched from position i, where
\* s[i] is a digit. \d+ takes the whole run of digits (a shorter run is followed
\* by a digit, which nothing after the group can match), and "-\d+" is taken
\* whenever a "-" and a digit follow.
NumberEnd(s, i) ==
    LET j == SkipWhile(s, i, Digits)
    IN  IF j + 1 <= Len(s) /\ s[j] = "-" /\ IsDigit(s[j + 1])
        THEN SkipWhile(s, j + 1, Digits)
        ELSE j

\* /(\d+(?:-\d+)?)\s*(?:<words>)s?/i matches s from position i.
MatchesAt(s, i, words) ==
    /\ IsDigit(s[i])
    /\ LET m == SkipWhile(s, NumberEnd(s, i), Whitespace)
       IN  \E w \in words : StartsWithAtCI(s, m, w)

\* text.match(re): the capture group of the leftmost match, <<>> for null.
MatchGroup(s, words) ==
    LET starts == {i \in 1..Len(s) : MatchesAt(s, i, words)}
    IN  IF starts = {} THEN <<>>
        ELSE LET i == CHOOSE x \in starts : \A y \in starts : x <= y
             IN  SubSeq(s, i, NumberEnd(s, i) - 1)

\* Variant: the upper bound of a range is taken.
LowerBound_upper(val) ==
    LET j == SkipWhile(val, 1, Digits)
    IN  IF j <= Len(val) THEN SubSeq(val, j + 1, Len(val)) ELSE val

\* val.includes('-') ? val.split('-')[0] : val
LowerBound(val) == SubSeq(val, 1, SkipWhile(val, 1, Digits) - 1)

\* Variant: the hour expression is tried before the minute expression.
extractTimeInSeconds_hoursFirst(text) ==
    LET minuteMatch == MatchGroup(text, MinuteWords)
        hourMatch == MatchGroup(text, HourWords)
    IN  IF hourMatch # <<>> THEN parseDigits(LowerBound(hourMatch)) * 3600
        ELSE IF minuteMatch # <<>> THEN parseDigits(LowerBound(minuteMatch)) * 60
        ELSE NoDuration

extractTimeInSeconds(text) ==
    LET minuteMatch == MatchGroup(text, MinuteWords)
        hourMatch == MatchGroup(text, HourWords)
    IN  IF minuteMatch # <<>> THEN parseDigits(LowerBound(minuteMatch)) * 60
        ELSE IF hourMatch # <<>> THEN parseDigits(LowerBound(hourMatch)) * 3600
        ELSE NoDuration

(***************************************************************************)
(* Recipes                                                                 *)
(***************************************************************************)

\* Step texts and ingredient names of the recipes the sessions cook.
TextChop == <<"C", "h", "o", "p", " ", "o", "n", "i", "o", "n">>
TextBoil == <<"B", "o", "i", "l", " ", "1", " ", "m", "i", "n">>
TextRest == <<"R", "e", "s", "t", " ", "2", " ", "m", "i", "n", "s">>
TextWait == <<"W", "a", "i", "t", " ", "0", " ", "m", "i", "n">>
NameOnion == <<"R", "e", "d", " ", "O", "n", "i", "o", "n">>
NameSalt == <<"S", "a", "l", "t">>

\* Recipe (types.ts), reduced to the fields cook mode reads; a recipe is
\* named by its position in this list.
Recipes ==
    << [steps |-> <<TextChop, TextBoil, TextRest>>, ingredients |-> <<NameOnion, NameSalt>>],
       [steps |-> <<TextBoil, TextWait>>, ingredients |-> <<NameSalt>>],
       [steps |-> <<TextChop>>, ingredients |-> <<NameOnion>>] >>

RecipeIds == 1..Len(Recipes)

\* recipe.steps[i], steps being indexed from 0 in the source.
StepText(r, i) == Recipes[r].steps[i + 1]

StepCount(r) == Len(Recipes[r].steps)

StepIndexes(r) == 0..(StepCount(r) - 1)

(***************************************************************************)
(* stepIngredients                                                         *)
(***************************************************************************)

Separators == Whitespace \cup {"-"}

\* ing.name.split(/[\s-]+/): the maximal runs of non-separator characters
\* (the empty strings split also yields never pass the length test).
split(name) ==
    { SubSeq(name, a, b) : <<a, b>> \in
        { p \in (1..Len(name)) \X (1..Len(name)) :
            /\ p[1] <= p[2]
            /\ \A k \in p[1]..p[2] : name[k] \notin Separators
            /\ (p[1] = 1 \/ name[p[1] - 1] \in Separators)
            /\ (p[2] = Len(name) \/ name[p[2] + 1] \in Separators) } }

\* Variant: a word counts from five characters on.
IngredientMatches_longWords(text, name) ==
    \/ includes(toLowerCase(text), toLowerCase(name))
    \/ \E part \in split(name) :
          Len(part) > 4 /\ includes(toLowerCase(text), toLowerCase(part))

\* The filter predicate of stepIngredients.
IngredientMatches(text, name) ==
    \/ includes(toLowerCase(text), toLowerCase(name))
    \/ \E part \in split(name) :
          Len(part) >= 4 /\ includes(toLowerCase(text), toLowerCase(part))

\* The originalIndex values (from 0) of the ingredients the step text names.
stepIngredients(r, text) ==
    { idx \in 0..(Len(Recipes[r].ingredients) - 1) :
        IngredientMatches(text, Recipes[r].ingredients[idx + 1]) }

\* What a render of step idx of recipe r derives from the step's text,
\* tabulated once per recipe and step.
DerivedOfStep ==
    [r \in RecipeIds |->
        [idx \in StepIndexes(r) |->
            [ detectedDuration |-> extractTimeInSeconds(StepText(r, idx)),
              stepIngredients |-> stepIngredients(r, StepText(r, idx)) ]]]

detectedDurationAt(r, idx) == DerivedOfStep[r][idx].detectedDuration

(***************************************************************************)
(* Cook-mode session state                                                 *)
(***************************************************************************)

\* Most intervals window.setInterval hands out in one behaviour.
MaxIntervals == 3

\* Most ticks that fire before the render the first of them scheduled has
\* committed (the interval's period is a second).
MaxPendingTicks == 1

\* timer === null
NoTimer == [null |-> TRUE]

\* No ingredient list and step text are under matching.
NoDish == [ingredients |-> <<>>, text |-> <<>>]

\* No step text is under extraction.
NoSample == [lead |-> <<>>, occs |-> <<>>, tail |-> <<>>]

\* window.speechSynthesis holds no utterance (after cancel(), or the last
\* utterance was spoken to its end).
NotSpeaking == -1

\* error === null
NoError == "null"

\* No generateRecipes call is outstanding.
NoRequest == [outstanding |-> FALSE]

\* mealPlan === {}
EmptyPlan == <<>>

\* No handler argument is recorded.
NoArg == [none |-> TRUE]

VARIABLES
    isCookMode,         \* RecipeDetailModal: the CookMode component is mounted
    recipe,             \* the recipe prop (its position in Recipes)
    currentStepIndex,   \* useState(0)
    timer,              \* useState(null): NoTimer or [duration, remaining, isRunning, stepIndex]
    checkedItems,       \* useState(new Set()): keys "stepIndex-ingredientIndex"
    timerRef,           \* useRef(null): the id of the last interval set, 0 for null
    intervals,          \* the ids of the intervals that are set and not cleared
    nextId,             \* the id window.setInterval returns next
    view,               \* what the last committed render closed over and shows
    pendingTicks,       \* ticks whose state update no render has committed yet
    speaking,           \* window.speechSynthesis: the step being read aloud, or NotSpeaking
    op,                 \* history: the last operation
    prevTimer,          \* history: timer before the last operation
    prevSpeaking,       \* history: speaking before the last operation
    sample,             \* the step text under extraction (its parts), outside sessions
    seconds,            \* the result of extractTimeInSeconds for sample
    dish,               \* the ingredient names and step text under matching, outside sessions
    matched,            \* the stepIngredients list computed for dish
    isOpen,             \* RecipeDetailModal: the detail view of a recipe is open
    servings,           \* recipe.servings of the recipe shown (0 when absent)
    currentServings,    \* RecipeDetailModal: useState(recipe.servings || 2)
    inputVal,           \* App: useState(''), the text of the ingredient box
    ingredients,        \* App: useState([]), the entered ingredients
    recipes,            \* App: useState([]), the generated recipes
    loading,            \* App: useState(false)
    error,              \* App: useState(null), NoError or the message
    request,            \* the generateRecipes call awaited by handleGenerate, or NoRequest
    savedRecipes,       \* App: useState(<localStorage>), the cookbook
    persisted,          \* localStorage[LOCAL_STORAGE_KEY], parsed
    mealPlan,           \* App: useState(<localStorage>), day -> meal type -> recipe
    arg                 \* history: the argument of the last App handler called

vars == <<isCookMode, recipe, currentStepIndex, timer, checkedItems, timerRef,
          intervals, nextId, view, pendingTicks, speaking, op, prevTimer,
          prevSpeaking, sample, seconds, dish, matched,
          isOpen, servings, currentServings,
          inputVal, ingredients, recipes, loading, error, request,
          savedRecipes, persisted, mealPlan, arg>>

\* The variables of the helper specifications and of the detail view.
pureVars == <<sample, seconds, dish, matched>>
detailVars == <<isOpen, servings, currentServings>>

\* The detail view is outside the specification: no recipe is shown.
NoDetail == isOpen = FALSE /\ servings = 0 /\ currentServings = 0

\* The variables of the App component.
pantryVars == <<inputVal, ingredients, recipes, loading, error, request>>
cookbookVars == <<savedRecipes, persisted, mealPlan>>
appVars == <<pantryVars, cookbookVars, arg>>

\* The App component is outside the specification: its state is the one
\* of a first visit.
NoApp ==
    /\ inputVal = <<>> /\ ingredients = <<>> /\ recipes = <<>>
    /\ loading = FALSE /\ error = NoError /\ request = NoRequest
    /\ savedRecipes = <<>> /\ persisted = <<>> /\ mealPlan = EmptyPlan
    /\ arg = NoArg

\* The render of CookMode: the values its handlers and its JSX close over.
\* currentStepIndex and checkedItems change only in click handlers, whose
\* updates are rendered before the next event, so the view never lags on them.
\* The timer it shows lags behind the timer state while a tick's update waits
\* for its render.
Render(r, idx, t) ==
    [ timer |-> t,
      detectedDuration |-> DerivedOfStep[r][idx].detectedDuration,
      stepIngredients |-> DerivedOfStep[r][idx].stepIngredients ]

\* No render: CookMode is not mounted.
NoView == [timer |-> NoTimer, detectedDuration |-> NoDuration, stepIngredients |-> {}]

\* detectedDuration as a condition: null and 0 are falsy.
Truthy(d) == d # NoDuration /\ d # 0

isTimerForThisStep(v, idx) == v.timer # NoTimer /\ v.timer.stepIndex = idx

showActiveTimer(v) == v.timer # NoTimer

\* The Start button without the !isTimerForThisStep test.
showStartButton_anyStep(v, idx) == Truthy(v.detectedDuration)

\* {detectedDuration && !isTimerForThisStep && (<button onClick={startTimer}>)}
showStartButton(v, idx) == Truthy(v.detectedDuration) /\ ~isTimerForThisStep(v, idx)

\* The pause / play and reset buttons stand in the timer panel's
\* timer.remaining === 0 ? ... : ... branch for a timer with time left.
showTimerControls(v) == showActiveTimer(v) /\ v.timer.remaining # 0

\* The dismiss button stands in the branch for a timer at 0.
showDismissButton(v) == showActiveTimer(v) /\ v.timer.remaining = 0

(***************************************************************************)
(* Handlers and state updaters                                             *)
(***************************************************************************)

\* tick without its "timer finished" branch.
tick_noFinish(prev) ==
    IF prev = NoTimer \/ ~prev.isRunning THEN prev
    ELSE [prev EXCEPT !.remaining = prev.remaining - 1]

\* tick that leaves a finished timer running.
tick_staysRunning(prev) ==
    IF prev = NoTimer \/ ~prev.isRunning THEN prev
    ELSE IF prev.remaining <= 1 THEN [prev EXCEPT !.remaining = 0]
    ELSE [prev EXCEPT !.remaining = prev.remaining - 1]

\* The updater the interval passes to setTimer.
tick(prev) ==
    IF prev = NoTimer \/ ~prev.isRunning THEN prev
    ELSE IF prev.remaining <= 1 THEN [prev EXCEPT !.remaining = 0, !.isRunning = FALSE]
    ELSE [prev EXCEPT !.remaining = prev.remaining - 1]

\* startTimer that creates the timer paused.
startTimer_paused(detectedDuration, idx, prev) ==
    IF Truthy(detectedDuration)
    THEN [duration |-> detectedDuration, remaining |-> detectedDuration,
          isRunning |-> FALSE, stepIndex |-> idx]
    ELSE prev

\* startTimer that carries the replaced timer's countdown over.
startTimer_keepsCountdown(detectedDuration, idx, prev) ==
    IF Truthy(detectedDuration)
    THEN [duration |-> detectedDuration,
          remaining |-> IF prev # NoTimer /\ prev.remaining < detectedDuration
                        THEN prev.remaining ELSE detectedDuration,
          isRunning |-> TRUE, stepIndex |-> idx]
    ELSE prev

\* startTimer that binds the timer to the step after the one viewed.
startTimer_nextStep(detectedDuration, idx, prev) ==
    IF Truthy(detectedDuration)
    THEN [duration |-> detectedDuration, remaining |-> detectedDuration,
          isRunning |-> TRUE, stepIndex |-> idx + 1]
    ELSE prev

\* startTimer without its "if (detectedDuration)" test.
startTimer_unchecked(detectedDuration, idx, prev) ==
    [duration |-> detectedDuration, remaining |-> detectedDuration,
     isRunning |-> TRUE, stepIndex |-> idx]

startTimer(detectedDuration, idx, prev) ==
    IF Truthy(detectedDuration)
    THEN [duration |-> detectedDuration, remaining |-> detectedDuration,
          isRunning |-> TRUE, stepIndex |-> idx]
    ELSE prev

toggleTimer(prev) ==
    IF prev # NoTimer THEN [prev EXCEPT !.isRunning = ~prev.isRunning] ELSE NoTimer

\* resetTimer that keeps the running flag.
resetTimer_keepsRunning(prev) ==
    IF prev # NoTimer THEN [prev EXCEPT !.remaining = prev.duration] ELSE NoTimer

resetTimer(prev) ==
    IF prev # NoTimer
    THEN [prev EXCEPT !.remaining = prev.duration, !.isRunning = FALSE]
    ELSE NoTimer

stopTimer(prev) == NoTimer

\* Variant: Next wraps around from the last step to the first.
handleNext_wraps(idx, stepCount) == (idx + 1) % stepCount

handleNext(idx, stepCount) == IF idx < stepCount - 1 THEN idx + 1 ELSE idx

handlePrev(idx) == IF idx > 0 THEN idx - 1 ELSE idx

\* `${currentStepIndex}-${ingredientIndex}`
ItemKey(idx, ingredientIndex) == ToString(idx) \o "-" \o ToString(ingredientIndex)

\* Variant: the key is always added, never deleted.
toggleIngredientCheck_addOnly(prev, idx, ingredientIndex) ==
    prev \cup {ItemKey(idx, ingredientIndex)}

toggleIngredientCheck(prev, idx, ingredientIndex) ==
    LET key == ItemKey(idx, ingredientIndex)
    IN  IF key \in prev THEN prev \ {key} ELSE prev \cup {key}

(***************************************************************************)
(* The timer interval effect, deps [timer?.isRunning]                      *)
(***************************************************************************)

\* handleNext without window.speechSynthesis.cancel().
handleNextSpeech_noCancel(idx, stepCount, sp) == sp

\* handleNext: window.speechSynthesis.cancel() inside its if.
handleNextSpeech(idx, stepCount, sp) == IF idx < stepCount - 1 THEN NotSpeaking ELSE sp

\* handlePrev: window.speechSynthesis.cancel() inside its if.
handlePrevSpeech(idx, sp) == IF idx > 0 THEN NotSpeaking ELSE sp

\* speakStep: cancel(), then speak(new SpeechSynthesisUtterance(currentStepText)).
speakStep(idx) == idx

\* timer?.isRunning: <<>> stands for undefined.
Dep(t) == IF t = NoTimer THEN <<>> ELSE <<t.isRunning>>

\* The effect without its clearInterval calls.
Cleared_nothing(ids, ref) == ids

\* if (timerRef.current) clearInterval(timerRef.current)
Cleared(ids, ref) == ids \ {ref}

EffectSetsInterval(t) == t # NoTimer /\ t.isRunning /\ t.remaining > 0

\* A commit that renders timer value t after a render of timer value shown:
\* when the dependency changed, the previous effect's cleanup runs, then the
\* effect body with the rendered timer.
CommitEffect(shown, t) ==
    IF Dep(shown) = Dep(t)
    THEN UNCHANGED <<timerRef, intervals, nextId>>
    ELSE IF EffectSetsInterval(t)
    THEN /\ nextId <= MaxIntervals
         /\ timerRef' = nextId
         /\ intervals' = Cleared(intervals, timerRef) \cup {nextId}
         /\ nextId' = nextId + 1
    ELSE /\ intervals' = Cleared(intervals, timerRef)
         /\ UNCHANGED <<timerRef, nextId>>

\* A click handler's state updates are rendered and committed before the
\* next event. That render leaves out a tick's update that still waits for
\* its own render: it shows the handler's update applied to the timer shown
\* so far (shownTimer), while the timer state is the handler's update
\* applied after the tick's (t), which the waiting render then shows.
Commit(name, idx, shownTimer, t, items) ==
    /\ currentStepIndex' = idx
    /\ timer' = t
    /\ checkedItems' = items
    /\ view' = Render(recipe, idx, shownTimer)
    /\ CommitEffect(view.timer, shownTimer)
    /\ op' = name
    /\ prevTimer' = timer
    /\ prevSpeaking' = speaking
    /\ UNCHANGED <<pureVars, detailVars, appVars>>
    /\ UNCHANGED <<isCookMode, recipe, pendingTicks>>

(***************************************************************************)
(* Actions of the running program                                          *)
(***************************************************************************)

\* The detail view is shown; no CookMode component exists.
Unmounted ==
    /\ isCookMode = FALSE
    /\ currentStepIndex = 0
    /\ timer = NoTimer
    /\ checkedItems = {}
    /\ timerRef = 0
    /\ view = NoView

Init ==
    /\ Unmounted
    /\ recipe \in RecipeIds
    /\ intervals = {}
    /\ nextId = 1
    /\ pendingTicks = 0
    /\ speaking = NotSpeaking
    /\ op = "init"
    /\ prevTimer = NoTimer
    /\ prevSpeaking = NotSpeaking
    /\ sample = NoSample
    /\ seconds = NoDuration
    /\ dish = NoDish
    /\ matched = <<>>
    /\ NoDetail
    /\ NoApp

\* Variant: cook mode opens on the last step of the recipe.
StartCooking_lastStep ==
    /\ ~isCookMode
    /\ \E r \in RecipeIds :
        /\ recipe' = r
        /\ currentStepIndex' = StepCount(r) - 1
        /\ view' = Render(r, StepCount(r) - 1, NoTimer)
    /\ isCookMode' = TRUE
    /\ timer' = NoTimer
    /\ checkedItems' = {}
    /\ timerRef' = 0
    /\ pendingTicks' = 0
    /\ UNCHANGED <<intervals, nextId, speaking>>
    /\ op' = "mount"
    /\ prevTimer' = timer
    /\ prevSpeaking' = speaking
    /\ UNCHANGED <<pureVars, detailVars, appVars>>

\* "Start Cooking": setIsCookMode(true) mounts CookMode with its initial
\* state; the interval effect runs once with timer = null.
StartCooking ==
    /\ ~isCookMode
    /\ \E r \in RecipeIds :
        /\ recipe' = r
        /\ view' = Render(r, 0, NoTimer)
    /\ isCookMode' = TRUE
    /\ currentStepIndex' = 0
    /\ timer' = NoTimer
    /\ checkedItems' = {}
    /\ timerRef' = 0
    /\ pendingTicks' = 0
    /\ UNCHANGED <<intervals, nextId, speaking>>
    /\ op' = "mount"
    /\ prevTimer' = timer
    /\ prevSpeaking' = speaking
    /\ UNCHANGED <<pureVars, detailVars, appVars>>

\* onClose: CookMode unmounts; the effect cleanups clear the interval and
\* cancel the speech.
Close ==
    /\ isCookMode
    /\ isCookMode' = FALSE
    /\ currentStepIndex' = 0
    /\ timer' = NoTimer
    /\ checkedItems' = {}
    /\ timerRef' = 0
    /\ view' = NoView
    /\ intervals' = Cleared(intervals, timerRef)
    /\ pendingTicks' = 0
    /\ speaking' = NotSpeaking
    /\ UNCHANGED <<recipe, nextId>>
    /\ op' = "close"
    /\ prevTimer' = timer
    /\ prevSpeaking' = speaking
    /\ UNCHANGED <<pureVars, detailVars, appVars>>

\* A live interval fires: its callback queues the updater on the timer state.
\* A changed state is rendered by a later Rerender step.
Tick ==
    /\ isCookMode
    /\ intervals # {}
    /\ pendingTicks < MaxPendingTicks
    /\ timer' = tick(timer)
    /\ pendingTicks' = IF timer' # timer THEN pendingTicks + 1 ELSE pendingTicks
    /\ op' = "tick"
    /\ prevTimer' = timer
    /\ prevSpeaking' = speaking
    /\ UNCHANGED <<pureVars, detailVars, appVars>>
    /\ UNCHANGED <<isCookMode, recipe, currentStepIndex, checkedItems, timerRef,
                   intervals, nextId, view, speaking>>

\* The render scheduled by a tick's update commits.
Rerender ==
    /\ isCookMode
    /\ pendingTicks > 0
    /\ view' = Render(recipe, currentStepIndex, timer)
    /\ CommitEffect(view.timer, timer)
    /\ pendingTicks' = 0
    /\ op' = "render"
    /\ prevTimer' = timer
    /\ prevSpeaking' = speaking
    /\ UNCHANGED <<pureVars, detailVars, appVars>>
    /\ UNCHANGED <<isCookMode, recipe, currentStepIndex, timer, checkedItems, speaking>>

\* Variant: Next dismisses the timer.
ClickNext_stopsTimer ==
    /\ isCookMode
    /\ currentStepIndex # StepCount(recipe) - 1
    /\ Commit("handleNext", handleNext(currentStepIndex, StepCount(recipe)),
              stopTimer(view.timer), stopTimer(timer), checkedItems)
    /\ speaking' = handleNextSpeech(currentStepIndex, StepCount(recipe), speaking)

ClickNext ==
    /\ isCookMode
    /\ currentStepIndex # StepCount(recipe) - 1
    /\ Commit("handleNext", handleNext(currentStepIndex, StepCount(recipe)),
              view.timer, timer, checkedItems)
    /\ speaking' = handleNextSpeech(currentStepIndex, StepCount(recipe), speaking)

ClickPrev ==
    /\ isCookMode
    /\ currentStepIndex # 0
    /\ Commit("handlePrev", handlePrev(currentStepIndex), view.timer, timer, checkedItems)
    /\ speaking' = handlePrevSpeech(currentStepIndex, speaking)

\* "(Go to step)": setCurrentStepIndex(timer.stepIndex) of the rendered timer.
ClickGoToStep ==
    /\ isCookMode
    /\ showTimerControls(view)
    /\ ~isTimerForThisStep(view, currentStepIndex)
    /\ Commit("goToStep", view.timer.stepIndex, view.timer, timer, checkedItems)
    /\ UNCHANGED speaking

\* "Read Step": speakStep.
ClickReadStep ==
    /\ isCookMode
    /\ Commit("speakStep", currentStepIndex, view.timer, timer, checkedItems)
    /\ speaking' = speakStep(currentStepIndex)

\* The utterance has been spoken to its end.
SpeechEnds ==
    /\ speaking # NotSpeaking
    /\ speaking' = NotSpeaking
    /\ op' = "speechEnd"
    /\ prevTimer' = timer
    /\ prevSpeaking' = speaking
    /\ UNCHANGED <<pureVars, detailVars, appVars>>
    /\ UNCHANGED <<isCookMode, recipe, currentStepIndex, timer, checkedItems, timerRef,
                   intervals, nextId, view, pendingTicks>>

\* "Start Timer" / "Replace Timer"
ClickStartTimer ==
    /\ isCookMode
    /\ showStartButton(view, currentStepIndex)
    /\ Commit("startTimer", currentStepIndex,
              startTimer(view.detectedDuration, currentStepIndex, view.timer),
              startTimer(view.detectedDuration, currentStepIndex, timer), checkedItems)
    /\ UNCHANGED speaking

\* The pause / play button, rendered while the shown timer has time left.
ClickToggleTimer ==
    /\ isCookMode
    /\ showTimerControls(view)
    /\ Commit("toggleTimer", currentStepIndex, toggleTimer(view.timer), toggleTimer(timer),
           checkedItems)
    /\ UNCHANGED speaking

\* The reset button, rendered while the shown timer has time left.
ClickResetTimer ==
    /\ isCookMode
    /\ showTimerControls(view)
    /\ Commit("resetTimer", currentStepIndex, resetTimer(view.timer), resetTimer(timer),
           checkedItems)
    /\ UNCHANGED speaking

\* The dismiss button, rendered once the shown timer is at 0.
ClickStopTimer ==
    /\ isCookMode
    /\ showDismissButton(view)
    /\ Commit("stopTimer", currentStepIndex, stopTimer(view.timer), stopTimer(timer),
           checkedItems)
    /\ UNCHANGED speaking

\* A row of the step's ingredient checklist.
ClickIngredient ==
    /\ isCookMode
    /\ \E ingredientIndex \in view.stepIngredients :
        Commit("toggleIngredientCheck", currentStepIndex, view.timer, timer,
               toggleIngredientCheck(checkedItems, currentStepIndex, ingredientIndex))
    /\ UNCHANGED speaking

Next ==
    \/ StartCooking
    \/ Close
    \/ Tick
    \/ Rerender
    \/ ClickNext
    \/ ClickPrev
    \/ ClickGoToStep
    \/ ClickReadStep
    \/ SpeechEnds
    \/ ClickStartTimer
    \/ ClickToggleTimer
    \/ ClickResetTimer
    \/ ClickStopTimer
    \/ ClickIngredient

Spec == Init /\ [][Next]_vars

(***************************************************************************)
(* The handlers called directly                                            *)
(*                                                                         *)
(* The rendered controls keep some handler calls from ever happening (no   *)
(* timer panel without a timer, no Start button without a duration). This  *)
(* specification calls every handler of a mounted session in every state,  *)
(* as a test of the component's functions does.                            *)
(***************************************************************************)

\* The timers a session of recipe r can hold: bound to a step with a
\* duration, at the full duration, at one second, or expired.
TimersOf(r) ==
    { [duration |-> detectedDurationAt(r, idx), remaining |-> m, isRunning |-> b, stepIndex |-> idx] :
        <<idx, m, b>> \in
            { x \in StepIndexes(r) \X {0, 1, 60, 120} \X BOOLEAN :
                /\ Truthy(detectedDurationAt(r, x[1]))
                /\ x[2] \in {0, 1, detectedDurationAt(r, x[1])}
                /\ (x[2] = 0 => ~x[3]) } }

HandlersInit ==
    /\ isCookMode = TRUE
    /\ recipe \in RecipeIds
    /\ currentStepIndex \in StepIndexes(recipe)
    /\ timer \in TimersOf(recipe) \cup {NoTimer}
    /\ checkedItems = {}
    /\ view = Render(recipe, currentStepIndex, timer)
    /\ IF EffectSetsInterval(timer)
       THEN timerRef = 1 /\ intervals = {1} /\ nextId = 2
       ELSE timerRef = 0 /\ intervals = {} /\ nextId = 1
    /\ pendingTicks = 0
    /\ speaking = NotSpeaking
    /\ op = "init"
    /\ prevTimer = timer
    /\ prevSpeaking = NotSpeaking
    /\ sample = NoSample
    /\ seconds = NoDuration
    /\ dish = NoDish
    /\ matched = <<>>
    /\ NoDetail
    /\ NoApp

CallNext ==
    /\ isCookMode
    /\ Commit("handleNext", handleNext(currentStepIndex, StepCount(recipe)),
              view.timer, timer, checkedItems)
    /\ speaking' = handleNextSpeech(currentStepIndex, StepCount(recipe), speaking)

CallPrev ==
    /\ isCookMode
    /\ Commit("handlePrev", handlePrev(currentStepIndex), view.timer, timer, checkedItems)
    /\ speaking' = handlePrevSpeech(currentStepIndex, speaking)

\* The "(Go to step)" handler; it reads timer.stepIndex of a timer.
CallGoToStep ==
    /\ isCookMode
    /\ showActiveTimer(view)
    /\ Commit("goToStep", view.timer.stepIndex, view.timer, timer, checkedItems)
    /\ UNCHANGED speaking

CallSpeakStep ==
    /\ isCookMode
    /\ Commit("speakStep", currentStepIndex, view.timer, timer, checkedItems)
    /\ speaking' = speakStep(currentStepIndex)

CallStartTimer ==
    /\ isCookMode
    /\ Commit("startTimer", currentStepIndex,
           startTimer(view.detectedDuration, currentStepIndex, view.timer),
           startTimer(view.detectedDuration, currentStepIndex, timer), checkedItems)
    /\ UNCHANGED speaking

CallToggleTimer ==
    /\ isCookMode
    /\ Commit("toggleTimer", currentStepIndex, toggleTimer(view.timer), toggleTimer(timer),
           checkedItems)
    /\ UNCHANGED speaking

CallResetTimer ==
    /\ isCookMode
    /\ Commit("resetTimer", currentStepIndex, resetTimer(view.timer), resetTimer(timer),
           checkedItems)
    /\ UNCHANGED speaking

CallStopTimer ==
    /\ isCookMode
    /\ Commit("stopTimer", currentStepIndex, stopTimer(view.timer), stopTimer(timer),
           checkedItems)
    /\ UNCHANGED speaking

CallToggleIngredientCheck ==
    /\ isCookMode
    /\ \E ingredientIndex \in 0..(Len(Recipes[recipe].ingredients) - 1) :
        Commit("toggleIngredientCheck", currentStepIndex, view.timer, timer,
               toggleIngredientCheck(checkedItems, currentStepIndex, ingredientIndex))
    /\ UNCHANGED speaking

HandlersNext ==
    \/ CallNext
    \/ CallPrev
    \/ CallGoToStep
    \/ CallSpeakStep
    \/ CallStartTimer
    \/ CallToggleTimer
    \/ CallResetTimer
    \/ CallStopTimer
    \/ CallToggleIngredientCheck

SpecHandlers == HandlersInit /\ [][HandlersNext]_vars

(***************************************************************************)
(* extractTimeInSeconds on step texts                                      *)
(*                                                                         *)
(* A sample is a step text put together from a lead, up to two             *)
(* "number unit" occurrences joined by " then ", and a tail. The render of *)
(* a step computes detectedDuration = extractTimeInSeconds(currentStepText)*)
(***************************************************************************)

DigitChar == <<"0", "1", "2", "3", "4", "5", "6", "7", "8", "9">>

\* The decimal numeral of a natural number.
RECURSIVE Numeral(_)
Numeral(n) ==
    IF n < 10 THEN <<DigitChar[n + 1]>>
    ELSE Numeral(n \div 10) \o <<DigitChar[(n % 10) + 1]>>

LeadSimmer == <<"S", "i", "m", "m", "e", "r", " ", "f", "o", "r", " ">>
LeadBake == <<"B", "a", "k", "e", " ", "f", "o", "r", " ">>
LeadMarinate == <<"M", "a", "r", "i", "n", "a", "t", "e", " ", "f", "o", "r", " ">>
LeadSalt == <<"A", "d", "d", " ", "s", "a", "l", "t", " ", "t", "o", " ", "t", "a", "s", "t", "e">>
TailOven == <<" ", "i", "n", " ", "t", "h", "e", " ", "o", "v", "e", "n">>
Then == <<" ", "t", "h", "e", "n", " ">>

Leads == {<<>>, LeadSimmer, LeadBake, LeadMarinate, LeadSalt}
Tails == {<<>>, TailOven}

\* The words written after a number, with the family a reader takes them
\* for: minute and hour words, words that only begin with the letters of
\* one ("minced", "hourly"), a word that is no unit, and no word.
UnitWords ==
    { [word |-> <<"m", "i", "n">>, family |-> "minute"],
      [word |-> <<"m", "i", "n", "s">>, family |-> "minute"],
      [word |-> <<"m", "i", "n", "u", "t", "e">>, family |-> "minute"],
      [word |-> <<"m", "i", "n", "u", "t", "e", "s">>, family |-> "minute"],
      [word |-> <<"M", "i", "n", "u", "t", "e", "s">>, family |-> "minute"],
      [word |-> <<"h", "r">>, family |-> "hour"],
      [word |-> <<"h", "r", "s">>, family |-> "hour"],
      [word |-> <<"h", "o", "u", "r">>, family |-> "hour"],
      [word |-> <<"h", "o", "u", "r", "s">>, family |-> "hour"],
      [word |-> <<"m", "i", "n", "c", "e", "d">>, family |-> "prefix"],
      [word |-> <<"h", "o", "u", "r", "l", "y">>, family |-> "prefix"],
      [word |-> <<"c", "u", "p", "s">>, family |-> "none"],
      [word |-> <<>>, family |-> "none"] }

\* Numbers written in the samples.
SampleNumbers == {1, 10}

\* An occurrence: a number n, an optional fraction ".5", an optional range
\* end "-15", an optional space and a word.
Occurrences ==
    [n : SampleNumbers, frac : {<<>>, <<".", "5">>}, range : {<<>>, <<"-", "1", "5">>},
     gap : {<<>>, <<" ">>}, unit : UnitWords]

\* The occurrences a sample may hold after its first one.
SecondOccurrences ==
    { o \in Occurrences :
        /\ o.n = 10 /\ o.frac = <<>> /\ o.range = <<>> /\ o.gap = <<" ">>
        /\ o.unit.word \in {<<"m", "i", "n">>, <<"h", "o", "u", "r", "s">>} }

Samples ==
    [lead : Leads, occs : {<<>>}, tail : Tails]
        \cup [lead : Leads, occs : {<<o>> : o \in Occurrences}, tail : Tails]
        \cup [lead : Leads,
              occs : {<<o, p>> : <<o, p>> \in Occurrences \X SecondOccurrences},
              tail : Tails]

OccurrenceText(o) ==
    Numeral(o.n) \o o.frac \o o.range \o o.gap \o o.unit.word

\* The step text of a sample.
TextOf(s) ==
    s.lead
        \o (IF Len(s.occs) >= 1 THEN OccurrenceText(s.occs[1]) ELSE <<>>)
        \o (IF Len(s.occs) >= 2 THEN Then \o OccurrenceText(s.occs[2]) ELSE <<>>)
        \o s.tail

\* No cook-mode session: the component variables keep their unmounted values.
NoSession ==
    /\ Unmounted
    /\ recipe = 1
    /\ intervals = {}
    /\ nextId = 1
    /\ pendingTicks = 0
    /\ speaking = NotSpeaking
    /\ prevTimer = NoTimer
    /\ prevSpeaking = NotSpeaking

ExtractInit ==
    /\ NoSession
    /\ sample \in Samples
    /\ seconds = NoDuration
    /\ dish = NoDish
    /\ matched = <<>>
    /\ NoDetail
    /\ NoApp
    /\ op = "init"

\* const detectedDuration = extractTimeInSeconds(currentStepText)
ExtractDuration ==
    /\ op = "init"
    /\ seconds' = extractTimeInSeconds(TextOf(sample))
    /\ op' = "extractTimeInSeconds"
    /\ UNCHANGED <<isCookMode, recipe, currentStepIndex, timer, checkedItems, timerRef,
                   intervals, nextId, view, pendingTicks, speaking, prevTimer,
                   prevSpeaking, sample, dish, matched, detailVars, appVars>>

ExtractNext == ExtractDuration

SpecExtract == ExtractInit /\ [][ExtractNext]_vars

(***************************************************************************)
(* stepIngredients and the checklist on ingredient lists                   *)
(*                                                                         *)
(* A dish is a list of ingredient names and one step text. A name is       *)
(* written as its words and the separator between them, so that its tokens *)
(* are known from how it was put together.                                 *)
(***************************************************************************)

\* Variant: the entries are numbered by their position among the matches.
stepIngredientsList_renumbered(names, text) ==
    LET tagged == [i \in 1..Len(names) |-> [name |-> names[i], originalIndex |-> i - 1]]
        keep(ing) == IngredientMatches(text, ing.name)
        kept == SelectSeq(tagged, keep)
    IN  [k \in 1..Len(kept) |-> [name |-> kept[k].name, originalIndex |-> k - 1]]

\* recipe.ingredients.map((ing, idx) => ({...ing, originalIndex: idx}))
\*     .filter(ing => ...): the entries in list order, each with the
\* position (from 0) of its ingredient in the whole list.
stepIngredientsList(names, text) ==
    LET tagged == [i \in 1..Len(names) |-> [name |-> names[i], originalIndex |-> i - 1]]
        keep(ing) == IngredientMatches(text, ing.name)
    IN  SelectSeq(tagged, keep)

WordChicken == <<"C", "h", "i", "c", "k", "e", "n">>
WordBreast == <<"B", "r", "e", "a", "s", "t">>
WordSalt == <<"S", "a", "l", "t">>
WordOlive == <<"O", "l", "i", "v", "e">>
WordOil == <<"O", "i", "l">>
WordSea == <<"S", "e", "a">>
WordEgg == <<"E", "g", "g">>

IngredientNames ==
    { [words |-> <<WordChicken, WordBreast>>, sep |-> " "],
      [words |-> <<WordSalt>>, sep |-> " "],
      [words |-> <<WordOlive, WordOil>>, sep |-> "-"],
      [words |-> <<WordSea, WordSalt>>, sep |-> " "],
      [words |-> <<WordEgg>>, sep |-> " "] }

\* The name as the recipe holds it: the words joined by the separator.
RECURSIVE JoinWords(_, _)
JoinWords(words, sep) ==
    IF Len(words) = 1 THEN words[1]
    ELSE words[1] \o <<sep>> \o JoinWords(Tail(words), sep)

NameOf(n) == JoinWords(n.words, n.sep)

\* Most ingredients of a dish.
MaxIngredients == 3

\* The ingredient lists: up to MaxIngredients different names in any order.
IngredientLists ==
    UNION { { l \in [1..k -> IngredientNames] :
                \A a, b \in 1..k : a # b => l[a] # l[b] } : k \in 0..MaxIngredients }

TextSeason == <<"S", "e", "a", "s", "o", "n", " ", "t", "h", "e", " ", "c", "h", "i", "c", "k", "e", "n", " ", "w", "i", "t", "h", " ", "s", "a", "l", "t">>
TextBroth == <<"A", "d", "d", " ", "t", "h", "e", " ", "b", "r", "o", "t", "h">>
TextDrizzle == <<"D", "r", "i", "z", "z", "l", "e", " ", "w", "i", "t", "h", " ", "O", "L", "I", "V", "E", "-", "O", "I", "L">>
TextOilEgg == <<"A", "d", "d", " ", "o", "i", "l", " ", "a", "n", "d", " ", "a", "n", " ", "e", "g", "g">>
TextWhisk == <<"W", "h", "i", "s", "k", " ", "t", "h", "e", " ", "e", "g", "g", "s", " ", "i", "n", " ", "s", "e", "a", "s", "a", "l", "t">>

StepTexts == {TextSeason, TextBroth, TextDrizzle, TextOilEgg, TextWhisk}

Dishes == [ingredients : IngredientLists, text : StepTexts]

\* A session on a dish of one step, before its first render. The session
\* variables that neither the matcher nor the checklist reads keep their
\* initial values.
MatchInit ==
    /\ isCookMode = TRUE
    /\ recipe = 1
    /\ currentStepIndex = 0
    /\ timer = NoTimer
    /\ checkedItems = {}
    /\ timerRef = 0
    /\ view = NoView
    /\ intervals = {}
    /\ nextId = 1
    /\ pendingTicks = 0
    /\ speaking = NotSpeaking
    /\ prevTimer = NoTimer
    /\ prevSpeaking = NotSpeaking
    /\ sample = NoSample
    /\ seconds = NoDuration
    /\ dish \in Dishes
    /\ matched = <<>>
    /\ NoDetail
    /\ NoApp
    /\ op = "init"

\* The render computes stepIngredients from the ingredient list and the
\* text of the current step.
MatchStep ==
    /\ op = "init"
    /\ matched' = stepIngredientsList([i \in 1..Len(dish.ingredients) |->
                                          NameOf(dish.ingredients[i])], dish.text)
    /\ op' = "stepIngredients"
    /\ UNCHANGED <<isCookMode, recipe, currentStepIndex, timer, checkedItems, timerRef,
                   intervals, nextId, view, pendingTicks, speaking, prevTimer,
                   prevSpeaking, sample, seconds, dish, detailVars, appVars>>

\* A click on an entry of the rendered checklist:
\* onClick={() => toggleIngredientCheck(ing.originalIndex)}
ClickEntry ==
    /\ op # "init"
    /\ \E k \in 1..Len(matched) :
        checkedItems' = toggleIngredientCheck(checkedItems, currentStepIndex,
                                              matched[k].originalIndex)
    /\ op' = "toggleIngredientCheck"
    /\ UNCHANGED <<isCookMode, recipe, currentStepIndex, timer, timerRef,
                   intervals, nextId, view, pendingTicks, speaking, prevTimer,
                   prevSpeaking, sample, seconds, dish, matched, detailVars, appVars>>

MatchNext ==
    \/ MatchStep
    \/ ClickEntry

SpecMatch == MatchInit /\ [][MatchNext]_vars

(***************************************************************************)
(* RecipeDetailModal: the serving count                                    *)
(***************************************************************************)

\* Largest recipe.servings of the recipes opened.
MaxBaseServings == 24

\* recipe.servings of the recipes; 0 stands for an absent (or zero) count,
\* which "recipe.servings || 2" replaces by 2.
BaseServings == 0..MaxBaseServings

\* recipe.servings || 2
OrTwo(n) == IF n = 0 THEN 2 ELSE n

\* setCurrentServings(prev => Math.max(1, Math.min(20, prev + delta)))
handleServingsChange(prev, delta) ==
    LET sum == prev + delta
        capped == IF sum < 20 THEN sum ELSE 20
    IN  IF capped > 1 THEN capped ELSE 1

(***************************************************************************)
(* scaleAmount (utils), written from its contract: a leading integer,      *)
(* decimal, fraction "a/b" or mixed number "a b/c" is multiplied by        *)
(* desired / original and written back in front of the unchanged rest of   *)
(* the string; any other string is returned as it is. A result that is no  *)
(* whole number is written exactly when it is a number of quarters, and    *)
(* rounded to one decimal place otherwise.                                 *)
(***************************************************************************)

RECURSIVE Pow10(_)
Pow10(k) == IF k = 0 THEN 1 ELSE 10 * Pow10(k - 1)

\* Whether a digit stands at position i of s.
DigitAt(s, i) == i >= 1 /\ i <= Len(s) /\ IsDigit(s[i])

\* The leading number of an amount string as num / den, and the rest of
\* the string; ok is FALSE when the string does not begin with a number.
ParseAmount(a) ==
    LET i == SkipWhile(a, 1, Digits)
        whole == parseDigits(SubSeq(a, 1, i - 1))
        j == SkipWhile(a, i + 1, Digits)
        second == parseDigits(SubSeq(a, i + 1, j - 1))
        k == SkipWhile(a, j + 1, Digits)
        third == parseDigits(SubSeq(a, j + 1, k - 1))
        none == [ok |-> FALSE, num |-> 0, den |-> 1, rest |-> a]
    IN  IF ~DigitAt(a, 1) THEN none
        ELSE IF DigitAt(a, i + 1) /\ a[i] = "."
        THEN [ok |-> TRUE, num |-> whole * Pow10(j - i - 1) + second,
              den |-> Pow10(j - i - 1), rest |-> SubSeq(a, j, Len(a))]
        ELSE IF DigitAt(a, i + 1) /\ a[i] = "/"
        THEN IF second = 0 THEN none
             ELSE [ok |-> TRUE, num |-> whole, den |-> second,
                   rest |-> SubSeq(a, j, Len(a))]
        ELSE IF DigitAt(a, i + 1) /\ a[i] = " " /\ DigitAt(a, j + 1) /\ a[j] = "/"
                 /\ third # 0
        THEN [ok |-> TRUE, num |-> whole * third + second, den |-> third,
              rest |-> SubSeq(a, k, Len(a))]
        ELSE [ok |-> TRUE, num |-> whole, den |-> 1, rest |-> SubSeq(a, i, Len(a))]

\* The number num / den as it is written into the scaled amount.
FormatAmount(num, den) ==
    IF num % den = 0 THEN Numeral(num \div den)
    ELSE IF (4 * num) % den = 0
    THEN LET h == (100 * num) \div den
         IN  Numeral(h \div 100) \o <<".", DigitChar[((h \div 10) % 10) + 1]>>
                 \o (IF h % 10 = 0 THEN <<>> ELSE <<DigitChar[(h % 10) + 1]>>)
    ELSE LET t == (20 * num + den) \div (2 * den)
         IN  IF t % 10 = 0 THEN Numeral(t \div 10)
             ELSE Numeral(t \div 10) \o <<".", DigitChar[(t % 10) + 1]>>

scaleAmount(amount, originalServings, desiredServings) ==
    LET p == ParseAmount(amount)
        original == IF originalServings > 0 THEN originalServings ELSE 1
    IN  IF ~p.ok THEN amount
        ELSE FormatAmount(p.num * desiredServings, p.den * original) \o p.rest

\* The amount strings of the recipes' ingredients.
Amounts ==
    { <<"2", "0", "0", " ", "g">>,
      <<"2">>,
      <<"1", ".", "5", " ", "c", "u", "p", "s">>,
      <<"0", ".", "2", "5", " ", "t", "s", "p">>,
      <<"1", "/", "2", " ", "c", "u", "p">>,
      <<"1", " ", "1", "/", "2", " ", "c", "u", "p", "s">>,
      <<"1", "/", "3", " ", "c", "u", "p">>,
      <<"a", " ", "p", "i", "n", "c", "h">>,
      <<"t", "o", " ", "t", "a", "s", "t", "e">> }

\* The amount the ingredient list of the open detail view shows:
\* scaleAmount(ing.amount, recipe.servings || 2, currentServings)
DisplayedAmount(amount) == scaleAmount(amount, OrTwo(servings), currentServings)

\* The cook-mode variables while no session is looked at.
CookIdle ==
    /\ Unmounted
    /\ recipe = 1
    /\ intervals = {}
    /\ nextId = 1
    /\ pendingTicks = 0
    /\ speaking = NotSpeaking
    /\ prevTimer = NoTimer
    /\ prevSpeaking = NotSpeaking

cookVars == <<isCookMode, recipe, currentStepIndex, timer, checkedItems, timerRef,
              intervals, nextId, view, pendingTicks, speaking, prevTimer, prevSpeaking>>

DetailInit ==
    /\ CookIdle
    /\ sample = NoSample /\ seconds = NoDuration
    /\ dish = NoDish /\ matched = <<>>
    /\ NoDetail
    /\ NoApp
    /\ op = "init"

\* OpenDetail with the serving count of a recipe without one set to 4.
OpenDetail_defaultFour ==
    /\ ~isOpen
    /\ isOpen' = TRUE
    /\ \E n \in BaseServings :
        /\ servings' = n
        /\ currentServings' = IF n = 0 THEN 4 ELSE n
    /\ op' = "open"
    /\ UNCHANGED <<cookVars, pureVars, appVars>>

\* App: setSelectedRecipe(recipe) mounts the modal with isOpen = true;
\* useState(recipe.servings || 2), and the effect sets the same value.
OpenDetail ==
    /\ ~isOpen
    /\ isOpen' = TRUE
    /\ \E n \in BaseServings :
        /\ servings' = n
        /\ currentServings' = OrTwo(n)
    /\ op' = "open"
    /\ UNCHANGED <<cookVars, pureVars, appVars>>

\* onClose: setSelectedRecipe(null) unmounts the modal.
CloseDetail ==
    /\ isOpen
    /\ isOpen' = FALSE
    /\ servings' = 0
    /\ currentServings' = 0
    /\ op' = "closeDetail"
    /\ UNCHANGED <<cookVars, pureVars, appVars>>

\* The "+" button: handleServingsChange(1).
ClickPlus ==
    /\ isOpen
    /\ currentServings' = handleServingsChange(currentServings, 1)
    /\ op' = "plus"
    /\ UNCHANGED <<cookVars, pureVars, appVars, isOpen, servings>>

\* The "-" button, disabled={currentServings <= 1}: handleServingsChange(-1).
ClickMinus ==
    /\ isOpen
    /\ ~(currentServings <= 1)
    /\ currentServings' = handleServingsChange(currentServings, -1)
    /\ op' = "minus"
    /\ UNCHANGED <<cookVars, pureVars, appVars, isOpen, servings>>

DetailNext ==
    \/ OpenDetail
    \/ CloseDetail
    \/ ClickPlus
    \/ ClickMinus

SpecDetail == DetailInit /\ [][DetailNext]_vars

(***************************************************************************)
(* App: the ingredient box, the entered ingredients and recipe generation. *)
(* The handlers are taken with the arguments their callers pass; the       *)
(* suggestion dropdown is left out, its entries reach handleAddIngredient  *)
(* like the quick-add chips do.                                            *)
(***************************************************************************)

\* String.prototype.trim
TrimStart(s) == SubSeq(s, SkipWhile(s, 1, Whitespace), Len(s))

RECURSIVE TrimEnd(_)
TrimEnd(s) ==
    IF s # <<>> /\ s[Len(s)] \in Whitespace
    THEN TrimEnd(SubSeq(s, 1, Len(s) - 1)) ELSE s

trim(s) == TrimEnd(TrimStart(s))

\* Array.prototype.includes
arrayIncludes(list, x) == \E i \in 1..Len(list) : list[i] = x

\* handleAddIngredient with the trimmed value added even when the list has it.
handleAddIngredient_repeats(val, list, input, err) ==
    LET trimmed == trim(val)
    IN  IF trimmed # <<>>
        THEN [ingredients |-> Append(list, trimmed), inputVal |-> <<>>,
              error |-> NoError]
        ELSE [ingredients |-> list, inputVal |-> input, error |-> err]

\* handleAddIngredient(val): the ingredients, the input box and the error
\* after the call.
handleAddIngredient(val, list, input, err) ==
    LET trimmed == trim(val)
    IN  IF trimmed # <<>> /\ ~arrayIncludes(list, trimmed)
        THEN [ingredients |-> Append(list, trimmed), inputVal |-> <<>>,
              error |-> NoError]
        ELSE [ingredients |-> list, inputVal |-> input, error |-> err]

\* removeIngredient(ing): ingredients.filter(i => i !== ing)
removeIngredient(list, ing) == SelectSeq(list, LAMBDA i : i # ing)

ErrorEmpty == "Please add at least one ingredient!"
ErrorFailed == "Failed to generate recipes. Please try again. Make sure your API key is configured."

WordSaltLower == <<"s", "a", "l", "t">>

\* What is typed into the ingredient box.
InputValues ==
    { <<>>, <<" ">>, WordSalt, <<" ">> \o WordSalt \o <<" ">>, WordSaltLower,
      WordSea \o <<" ">> \o WordSalt \o <<" ">> }

\* QUICK_ADD_INGREDIENTS / COMMON_INGREDIENTS (two of them)
QuickAddIngredients == { WordSalt, WordEgg }

\* The recipe lists generateRecipes resolves to: each recipe with the id
\* made of the call's time and the recipe's index.
GeneratedLists ==
    { <<>>, <<[id |-> 1, servings |-> 4]>>,
      <<[id |-> 1, servings |-> 4], [id |-> 2, servings |-> 0]>> }

\* App after its first render.
PantryInit ==
    /\ CookIdle
    /\ sample = NoSample /\ seconds = NoDuration
    /\ dish = NoDish /\ matched = <<>>
    /\ NoDetail
    /\ NoApp
    /\ op = "init"

\* handleInputChange: setInputVal(e.target.value); the box is disabled
\* while loading.
TypeInput ==
    /\ ~loading
    /\ \E val \in InputValues : inputVal' = val
    /\ arg' = NoArg
    /\ op' = "input"
    /\ UNCHANGED <<ingredients, recipes, loading, error, request>>
    /\ UNCHANGED <<cookVars, pureVars, detailVars, cookbookVars>>

\* handleAddIngredient(inputVal) from the add button, the Enter key or the
\* dropdown's manual entry; handleAddIngredient(s) from a chip or a
\* suggestion.
AddIngredient ==
    /\ \E val \in {inputVal} \cup QuickAddIngredients :
        LET after == handleAddIngredient(val, ingredients, inputVal, error)
        IN  /\ ingredients' = after.ingredients
            /\ inputVal' = after.inputVal
            /\ error' = after.error
            /\ arg' = [val |-> val]
    /\ op' = "addIngredient"
    /\ UNCHANGED <<recipes, loading, request>>
    /\ UNCHANGED <<cookVars, pureVars, detailVars, cookbookVars>>

\* The X button of an entered ingredient.
RemoveIngredient ==
    /\ \E i \in 1..Len(ingredients) :
        /\ ingredients' = removeIngredient(ingredients, ingredients[i])
        /\ arg' = [val |-> ingredients[i]]
    /\ op' = "removeIngredient"
    /\ UNCHANGED <<inputVal, recipes, loading, error, request>>
    /\ UNCHANGED <<cookVars, pureVars, detailVars, cookbookVars>>

\* Generate with the recipes of the last generation kept while loading.
Generate_keepsRecipes ==
    /\ ~loading
    /\ IF Len(ingredients) = 0
       THEN /\ error' = ErrorEmpty
            /\ op' = "generateEmpty"
            /\ UNCHANGED <<loading, recipes, request>>
       ELSE /\ loading' = TRUE
            /\ error' = NoError
            /\ recipes' = recipes
            /\ request' = [outstanding |-> TRUE, ingredients |-> ingredients]
            /\ op' = "generate"
    /\ arg' = NoArg
    /\ UNCHANGED <<inputVal, ingredients>>
    /\ UNCHANGED <<cookVars, pureVars, detailVars, cookbookVars>>

\* handleGenerate up to its await. The Find Recipes button is disabled
\* while loading; on an empty list it is disabled as well, and the handler
\* has its own guard for that case, which is what a call of it runs.
Generate ==
    /\ ~loading
    /\ IF Len(ingredients) = 0
       THEN /\ error' = ErrorEmpty
            /\ op' = "generateEmpty"
            /\ UNCHANGED <<loading, recipes, request>>
       ELSE /\ loading' = TRUE
            /\ error' = NoError
            /\ recipes' = <<>>
            /\ request' = [outstanding |-> TRUE, ingredients |-> ingredients]
            /\ op' = "generate"
    /\ arg' = NoArg
    /\ UNCHANGED <<inputVal, ingredients>>
    /\ UNCHANGED <<cookVars, pureVars, detailVars, cookbookVars>>

\* The awaited generateRecipes call resolves: setRecipes(generated), then
\* the finally block.
Resolve ==
    /\ request # NoRequest
    /\ \E generated \in GeneratedLists : recipes' = generated
    /\ loading' = FALSE
    /\ request' = NoRequest
    /\ arg' = NoArg
    /\ op' = "generated"
    /\ UNCHANGED <<inputVal, ingredients, error>>
    /\ UNCHANGED <<cookVars, pureVars, detailVars, cookbookVars>>

\* The awaited generateRecipes call rejects: the catch block, then the
\* finally block.
Reject ==
    /\ request # NoRequest
    /\ error' = ErrorFailed
    /\ loading' = FALSE
    /\ request' = NoRequest
    /\ arg' = NoArg
    /\ op' = "failed"
    /\ UNCHANGED <<inputVal, ingredients, recipes>>
    /\ UNCHANGED <<cookVars, pureVars, detailVars, cookbookVars>>

PantryNext ==
    \/ TypeInput
    \/ AddIngredient
    \/ RemoveIngredient
    \/ Generate
    \/ Resolve
    \/ Reject

SpecPantry == PantryInit /\ [][PantryNext]_vars

\* The service call returns: the promise handleGenerate awaits settles.
SpecPantryFair == SpecPantry /\ WF_vars(Resolve \/ Reject)

(***************************************************************************)
(* App: the cookbook (saved recipes and their copy in localStorage) and    *)
(* the meal plan. A recipe is its id and its serving count (0 when the     *)
(* stored recipe has none).                                                *)
(***************************************************************************)

\* Most recipe ids in the cookbook.
MaxRecipeId == 3

RecipePool == [id : 1..MaxRecipeId, servings : {0, 2, 4}]

\* JSON.stringify of a recipe list, and JSON.parse of the stored text.
stringify(list) == [i \in 1..Len(list) |-> <<list[i].id, list[i].servings>>]
parse(text) == [i \in 1..Len(text) |-> [id |-> text[i][1], servings |-> text[i][2]]]

\* useState initialiser of savedRecipes: every stored recipe with
\* servings: r.servings || 2
loadSaved(text) ==
    [i \in 1..Len(text) |->
        [id |-> text[i][1], servings |-> OrTwo(text[i][2])]]

\* The texts this program has stored under LOCAL_STORAGE_KEY: recipe lists
\* without a repeated id (the empty one on a first visit).
StoredLists ==
    { stringify(l) : l \in
        {<<>>} \cup { <<r>> : r \in [id : 1..MaxRecipeId, servings : {0, 4}] }
               \cup { <<r, q>> : r \in [id : {1}, servings : {0, 4}],
                                 q \in [id : {2}, servings : {0, 4}] } }

\* toggleSaveRecipe with a recipe counted as saved only when the very same
\* recipe is in the list.
toggleSaveRecipe_byValue(item, saved) ==
    IF \E i \in 1..Len(saved) : saved[i] = item
    THEN SelectSeq(saved, LAMBDA r : r.id # item.id)
    ELSE Append(saved, item)

\* toggleSaveRecipe: newSavedList
toggleSaveRecipe(item, saved) ==
    IF \E i \in 1..Len(saved) : saved[i].id = item.id
    THEN SelectSeq(saved, LAMBDA r : r.id # item.id)
    ELSE Append(saved, item)

CookbookInit ==
    /\ CookIdle
    /\ sample = NoSample /\ seconds = NoDuration
    /\ dish = NoDish /\ matched = <<>>
    /\ NoDetail
    /\ inputVal = <<>> /\ ingredients = <<>> /\ recipes = <<>>
    /\ loading = FALSE /\ error = NoError /\ request = NoRequest
    /\ persisted \in StoredLists
    /\ savedRecipes = loadSaved(persisted)
    /\ mealPlan = EmptyPlan
    /\ arg = NoArg
    /\ op = "init"

\* The save button of a recipe card or of the detail view: the recipe is a
\* generated one, a saved one or one of the meal plan.
ToggleSave ==
    /\ \E r \in RecipePool :
        /\ savedRecipes' = toggleSaveRecipe(r, savedRecipes)
        /\ persisted' = stringify(toggleSaveRecipe(r, savedRecipes))
        /\ arg' = [recipe |-> r]
    /\ op' = "toggleSaveRecipe"
    /\ UNCHANGED mealPlan
    /\ UNCHANGED <<cookVars, pureVars, detailVars, pantryVars>>

Days == {"Monday", "Tuesday"}
MealTypes == {"Breakfast", "Lunch", "Dinner"}

\* handleUpdateMealPlan with the day's entry kept when its last meal goes.
handleUpdateMealPlan_keepsDay(plan, day, type, r) ==
    LET meals == IF day \in DOMAIN plan THEN plan[day] ELSE <<>>
        left == [m \in DOMAIN meals \ {type} |-> meals[m]]
        set == [m \in DOMAIN meals \cup {type} |-> IF m = type THEN r.recipe ELSE meals[m]]
    IN  IF r = NoArg
        THEN [d \in DOMAIN plan \cup {day} |-> IF d = day THEN left ELSE plan[d]]
        ELSE [d \in DOMAIN plan \cup {day} |-> IF d = day THEN set ELSE plan[d]]

\* handleUpdateMealPlan(day, type, recipe): newPlan; r is NoArg for null.
handleUpdateMealPlan(plan, day, type, r) ==
    LET meals == IF day \in DOMAIN plan THEN plan[day] ELSE <<>>
        left == [m \in DOMAIN meals \ {type} |-> meals[m]]
        set == [m \in DOMAIN meals \cup {type} |-> IF m = type THEN r.recipe ELSE meals[m]]
    IN  IF r = NoArg
        THEN IF DOMAIN left = {}
             THEN [d \in DOMAIN plan \ {day} |-> plan[d]]
             ELSE [d \in DOMAIN plan \cup {day} |-> IF d = day THEN left ELSE plan[d]]
        ELSE [d \in DOMAIN plan \cup {day} |-> IF d = day THEN set ELSE plan[d]]

PlannerInit ==
    /\ CookbookInit
    /\ persisted # <<>>

\* MealPlanner: a saved recipe is dropped on a slot (handleDrop finds it by
\* its id) or picked for the active slot (handleManualSelect).
AssignSlot ==
    /\ \E day \in Days, type \in MealTypes, i \in 1..Len(savedRecipes) :
        /\ mealPlan' = handleUpdateMealPlan(mealPlan, day, type,
                                            [recipe |-> savedRecipes[i]])
        /\ arg' = [day |-> day, type |-> type, recipe |-> savedRecipes[i]]
    /\ op' = "assign"
    /\ UNCHANGED <<savedRecipes, persisted>>
    /\ UNCHANGED <<cookVars, pureVars, detailVars, pantryVars>>

\* onUpdatePlan(day, mealType, null): the remove button of a slot, and the
\* handler called for a slot that holds nothing.
ClearSlot ==
    /\ \E day \in Days, type \in MealTypes :
        /\ mealPlan' = handleUpdateMealPlan(mealPlan, day, type, NoArg)
        /\ arg' = [day |-> day, type |-> type]
    /\ op' = "clear"
    /\ UNCHANGED <<savedRecipes, persisted>>
    /\ UNCHANGED <<cookVars, pureVars, detailVars, pantryVars>>

CookbookNext == ToggleSave

SpecCookbook == CookbookInit /\ [][CookbookNext]_vars

PlannerNext ==
    \/ AssignSlot
    \/ ClearSlot

SpecPlanner == PlannerInit /\ [][PlannerNext]_vars

(***************************************************************************)
(* Properties of the step timer                                            *)
(***************************************************************************)

\* The duration extracted from the text of the step being viewed.
CurrentDuration == detectedDurationAt(recipe, currentStepIndex)

\* The timer startTimer creates on the step being viewed.
FreshTimer ==
    [duration |-> CurrentDuration, remaining |-> CurrentDuration,
     isRunning |-> TRUE, stepIndex |-> currentStepIndex]

Expired(t) == t # NoTimer /\ t.remaining = 0 /\ ~t.isRunning

\* C1: whenever a timer exists, 0 <= remaining <= duration.
C1_RemainingInRange ==
    timer # NoTimer => 0 <= timer.remaining /\ timer.remaining <= timer.duration

\* A timer that a tick has just brought from 1 to 0.
C1_Witness ==
    /\ op = "tick"
    /\ prevTimer # NoTimer /\ prevTimer.remaining = 1
    /\ timer # NoTimer /\ timer.remaining = 0 /\ timer.duration = 120

\* C2: a tick on a running timer with remaining > 1 takes exactly 1 off and
\* leaves it running; with remaining = 1 it yields remaining = 0 and
\* running = false; no tick raises remaining, changes duration or the step
\* index, or makes or discards a timer.
C2_TickStep ==
    op = "tick" =>
        /\ (prevTimer = NoTimer) = (timer = NoTimer)
        /\ prevTimer # NoTimer =>
            /\ timer.remaining <= prevTimer.remaining
            /\ timer.duration = prevTimer.duration
            /\ timer.stepIndex = prevTimer.stepIndex
            /\ (prevTimer.isRunning /\ prevTimer.remaining > 1) =>
                  (timer.remaining = prevTimer.remaining - 1 /\ timer.isRunning)
            /\ (prevTimer.isRunning /\ prevTimer.remaining = 1) =>
                  (timer.remaining = 0 /\ ~timer.isRunning)

\* A tick has taken a running timer from 1 to expired.
C2_Witness ==
    /\ op = "tick"
    /\ prevTimer # NoTimer /\ prevTimer.isRunning /\ prevTimer.remaining = 1
    /\ Expired(timer)

\* C3 (as claimed): an expired timer stays at remaining = 0, running = false
\* until it is reset, dismissed or replaced by a new timer (or the session
\* is closed); ticks and every other step leave it as it is.
C3_ExpiredStays ==
    (Expired(prevTimer) /\ timer # prevTimer) =>
        op \in {"resetTimer", "stopTimer", "startTimer", "close"}

\* C4 (as claimed): toggle flips the running flag of a timer with time left
\* and changes nothing else of it; on an expired timer it changes nothing.
C4_Toggle ==
    (op = "toggleTimer" /\ prevTimer # NoTimer) =>
        IF prevTimer.remaining > 0
        THEN timer = [prevTimer EXCEPT !.isRunning = ~prevTimer.isRunning]
        ELSE timer = prevTimer

\* C5: reset of an existing timer, be it running, paused or expired, sets
\* remaining to duration and running to false, and keeps duration and the
\* step index.
C5_Reset ==
    (op = "resetTimer" /\ prevTimer # NoTimer) =>
        /\ timer # NoTimer
        /\ timer.remaining = prevTimer.duration
        /\ ~timer.isRunning
        /\ timer.duration = prevTimer.duration
        /\ timer.stepIndex = prevTimer.stepIndex

\* An expired timer has been reset to its full duration.
C5_Witness ==
    /\ op = "resetTimer"
    /\ Expired(prevTimer)
    /\ timer # NoTimer /\ timer.remaining = timer.duration /\ ~timer.isRunning

\* C6: startTimer on a step with no extractable duration, and toggleTimer,
\* resetTimer or stopTimer without a timer, change nothing of the session
\* (step index, timer, checked set).
C6_NoOps ==
    [][ /\ (op' = "startTimer" /\ CurrentDuration = NoDuration) =>
              UNCHANGED <<currentStepIndex, timer, checkedItems>>
        /\ (op' \in {"toggleTimer", "resetTimer", "stopTimer"} /\ timer = NoTimer) =>
              UNCHANGED <<currentStepIndex, timer, checkedItems>> ]_vars

\* startTimer has been called on a step without a duration, a timer of
\* another step running, and the timer is as it was.
C6_Witness ==
    /\ op = "startTimer"
    /\ CurrentDuration = NoDuration
    /\ timer # NoTimer /\ timer.isRunning
    /\ timer = prevTimer

\* C7: when the step viewed has an extractable duration d and no timer
\* exists, Start creates the timer (d, d, running, the step viewed).
C7_StartCreates ==
    (op = "startTimer" /\ prevTimer = NoTimer /\ CurrentDuration # NoDuration) =>
        timer = FreshTimer

\* A timer has been started on the last step of the three-step recipe.
C7_Witness ==
    /\ op = "startTimer"
    /\ prevTimer = NoTimer
    /\ currentStepIndex = 2
    /\ timer = [duration |-> 120, remaining |-> 120, isRunning |-> TRUE, stepIndex |-> 2]

\* C8 (as claimed): where a timer exists, Start is not offered or changes
\* nothing.
C8_StartOnlyWithoutTimer ==
    (op = "startTimer" /\ prevTimer # NoTimer) => timer = prevTimer

\* C8 (amended): Start is taken only on a step with a duration above 0 to
\* which no timer is bound; a timer bound to another step does not keep it
\* from acting.
C8_StartOnlyOffTimerStep ==
    op = "startTimer" =>
        /\ CurrentDuration > 0
        /\ (prevTimer = NoTimer \/ prevTimer.stepIndex # currentStepIndex)
        /\ timer = FreshTimer

\* Start has acted while a timer of another step existed.
C8_Witness ==
    /\ op = "startTimer"
    /\ prevTimer # NoTimer
    /\ prevTimer.stepIndex # currentStepIndex
    /\ timer # prevTimer

\* C9: Start on a step other than the one a running timer is bound to
\* leaves one timer: bound to the step viewed, running, at that step's full
\* duration.
C9_Replace ==
    ( /\ op = "startTimer"
      /\ prevTimer # NoTimer
      /\ prevTimer.isRunning
      /\ prevTimer.stepIndex # currentStepIndex ) =>
        /\ timer.stepIndex = currentStepIndex
        /\ timer.isRunning
        /\ timer.remaining = CurrentDuration
        /\ timer.duration = CurrentDuration

\* A running 60-second timer part-way down has been replaced by the
\* 120-second timer of another step.
C9_Witness ==
    /\ op = "startTimer"
    /\ prevTimer # NoTimer /\ prevTimer.isRunning
    /\ prevTimer.duration = 60 /\ prevTimer.remaining < 60
    /\ prevTimer.stepIndex # currentStepIndex
    /\ timer.duration = 120 /\ timer.remaining = 120

\* C10: the session's one timer cell holds a timer bound to a step index of
\* the recipe; tick, toggle, reset, the scheduled render, the checklist and
\* all navigation keep the index it was started with.
C10_TimerStep ==
    /\ timer # NoTimer => timer.stepIndex \in StepIndexes(recipe)
    /\ ( /\ op \in {"tick", "render", "toggleTimer", "resetTimer", "handleNext",
                    "handlePrev", "goToStep", "toggleIngredientCheck"}
         /\ prevTimer # NoTimer ) =>
            (timer # NoTimer /\ timer.stepIndex = prevTimer.stepIndex)

\* After Next, a timer is bound to a step other than the one viewed.
C10_Witness ==
    /\ op = "handleNext"
    /\ timer # NoTimer
    /\ timer.stepIndex # currentStepIndex
    /\ timer.remaining < timer.duration

\* C11: a Next or Prev step changes the current step index only: the timer
\* (duration, remaining, running flag, step index), the checked-ingredient
\* set and the timer's interval are the same after the step as before it.
C11_NavigationFrame ==
    [][op' \in {"handleNext", "handlePrev"} =>
          /\ timer' = timer
          /\ checkedItems' = checkedItems
          /\ intervals' = intervals
          /\ timerRef' = timerRef]_vars

\* The user is back, by Prev, on a step with a checked ingredient, while the
\* timer started on another step is part-way down with its interval set.
C11_Witness ==
    /\ op = "handlePrev"
    /\ \E i \in 0..1 : ItemKey(currentStepIndex, i) \in checkedItems
    /\ timer # NoTimer /\ timer.isRunning
    /\ timer.stepIndex # currentStepIndex
    /\ timer.remaining > 0 /\ timer.remaining < timer.duration
    /\ intervals # {}

\* C12: in every state of a session 0 <= currentStepIndex < stepCount; a
\* Next step adds 1 to the index and a Prev step subtracts 1, except that
\* Next at the last step and Prev at step 0 leave it as it is; Go-to-step
\* keeps the index in range as well.
C12_StepIndex ==
    /\ [](isCookMode => currentStepIndex \in 0..(StepCount(recipe) - 1))
    /\ [][/\ op' = "handleNext" =>
                currentStepIndex' = IF currentStepIndex = StepCount(recipe) - 1
                                    THEN currentStepIndex
                                    ELSE currentStepIndex + 1
          /\ op' = "handlePrev" =>
                currentStepIndex' = IF currentStepIndex = 0
                                    THEN currentStepIndex
                                    ELSE currentStepIndex - 1
          /\ op' = "goToStep" => currentStepIndex' = timer.stepIndex]_vars

\* Next has been called at the last step of a recipe (a recipe of one step,
\* so that the state shows the index was left where it was).
C12_Witness ==
    /\ isCookMode
    /\ op = "handleNext"
    /\ StepCount(recipe) = 1
    /\ currentStepIndex = StepCount(recipe) - 1

\* C13: when Next or Prev is pressed while a step is being read aloud, the
\* narration is cancelled: after the step nothing is being spoken.
C13_NavigationCancelsSpeech ==
    (op \in {"handleNext", "handlePrev"} /\ prevSpeaking # NotSpeaking) =>
        speaking = NotSpeaking

\* Next has been pressed while the step left behind was being read aloud.
C13_Witness ==
    /\ op = "handleNext"
    /\ prevSpeaking = currentStepIndex - 1
    /\ speaking = NotSpeaking

\* Step and ingredient indexes up to this one are compared key by key.
MaxKeyIndex == 12

\* Distinct (step, ingredient) pairs have distinct keys.
KeysInjective ==
    \A s1 \in 0..MaxKeyIndex, i1 \in 0..MaxKeyIndex,
       s2 \in 0..MaxKeyIndex, i2 \in 0..MaxKeyIndex :
        ItemKey(s1, i1) = ItemKey(s2, i2) => (s1 = s2 /\ i1 = i2)

IngredientIndexes(r) == 0..(Len(Recipes[r].ingredients) - 1)

\* C14: a toggle of (step, ingredient) changes the checked set by exactly
\* the key of that pair of the current step, added if absent and removed if
\* present; toggling a pair twice gives back the set; distinct pairs never
\* share a key.
C14_ToggleIngredient ==
    /\ [](KeysInjective)
    /\ [](isCookMode =>
            \A i \in IngredientIndexes(recipe) :
                toggleIngredientCheck(
                    toggleIngredientCheck(checkedItems, currentStepIndex, i),
                    currentStepIndex, i) = checkedItems)
    /\ [][op' = "toggleIngredientCheck" =>
            \E i \in IngredientIndexes(recipe) :
                LET key == ItemKey(currentStepIndex, i)
                IN  IF key \in checkedItems
                    THEN checkedItems' = checkedItems \ {key}
                    ELSE /\ checkedItems' = checkedItems \cup {key}
                         /\ checkedItems' # checkedItems]_vars

\* Two toggles of a pair have emptied a checked set that held that pair
\* alone: the last operation is a toggle and nothing is checked.
C14_Witness ==
    /\ op = "toggleIngredientCheck"
    /\ checkedItems = {}
    /\ currentStepIndex > 0

\* C15: an interval (the one-second tick task) is set only while cook mode
\* is mounted and the committed render shows a timer that is running with
\* time left; with no timer, a paused or an expired timer rendered, and
\* after cook mode has closed, no interval is set; never are two intervals
\* set at once.
C15_TickTask ==
    /\ Cardinality(intervals) <= 1
    /\ intervals # {} =>
        /\ isCookMode
        /\ view.timer # NoTimer
        /\ view.timer.isRunning
        /\ view.timer.remaining > 0
        /\ intervals = {timerRef}
    /\ (pendingTicks = 0 /\ intervals # {}) => timer = view.timer

\* The pause button has been pressed on a running timer: its interval has
\* been cleared, after a second interval had been set in the session.
C15_Witness ==
    /\ op = "toggleTimer"
    /\ prevTimer # NoTimer /\ prevTimer.isRunning
    /\ timer # NoTimer /\ ~timer.isRunning /\ timer.remaining > 0
    /\ nextId > 2
    /\ intervals = {}

\* C16: a session that has just been opened is at step 0 with no timer, an
\* empty checked set and no interval, whatever happened in sessions before
\* it; once a session has been closed its timer, its checks and its interval
\* are gone.
C16_FreshSession ==
    /\ op = "mount" =>
        /\ isCookMode
        /\ currentStepIndex = 0
        /\ timer = NoTimer /\ view.timer = NoTimer
        /\ checkedItems = {}
        /\ intervals = {}
    /\ ~isCookMode =>
        /\ timer = NoTimer /\ view.timer = NoTimer
        /\ checkedItems = {}
        /\ intervals = {}

\* A session has just been opened after a session in which a timer ran
\* (an interval has been set before).
C16_Witness ==
    /\ op = "mount"
    /\ nextId > 1
    /\ currentStepIndex = 0 /\ timer = NoTimer /\ checkedItems = {}

(***************************************************************************)
(* The running UI with fair scheduling: the browser fires a set interval   *)
(* every second, and React renders an update it has scheduled.             *)
(***************************************************************************)
SpecFair == Spec /\ WF_vars(Tick) /\ WF_vars(Rerender)

\* The user's operations that pause, reset, dismiss or replace a timer, and
\* the end of the session.
TimerOps == {"toggleTimer", "resetTimer", "stopTimer", "startTimer", "close"}

RunningWithTimeLeft ==
    isCookMode /\ timer # NoTimer /\ timer.isRunning /\ timer.remaining > 0

TextSimmer == <<"S", "i", "m", "m", "e", "r", " ", "f", "o", "r", " ", "1", "0", " ", "m", "i", "n", "u", "t", "e", "s">>
TextBake == <<"B", "a", "k", "e", " ", "f", "o", "r", " ", "1", " ", "h", "o", "u", "r">>
TextMarinate == <<"M", "a", "r", "i", "n", "a", "t", "e", " ", "f", "o", "r", " ", "1", "0", "-", "1", "5", " ", "m", "i", "n", "s">>
TextSalt == <<"A", "d", "d", " ", "s", "a", "l", "t", " ", "t", "o", " ", "t", "a", "s", "t", "e">>

Extracted == op = "extractTimeInSeconds"

\* The seconds one unit of the occurrence's family stands for.
SecondsPerUnit(o) == IF o.unit.family = "minute" THEN 60 ELSE 3600

\* C18: for a text with one whole-number occurrence the result is the
\* number (the lower bound of a range) times 60 for a minute word and times
\* 3600 for an hour word; a text with no number, or with a number and no
\* unit word, has no duration; the spec's four examples give 600, 3600,
\* 600 and no duration.
C18_MinutesAndHours ==
    Extracted =>
        /\ sample.occs = <<>> => seconds = NoDuration
        /\ (Len(sample.occs) = 1 /\ sample.occs[1].frac = <<>>) =>
            LET o == sample.occs[1]
            IN  /\ o.unit.family \in {"minute", "hour"} =>
                    seconds = o.n * SecondsPerUnit(o)
                /\ o.unit.family = "none" => seconds = NoDuration
        /\ TextOf(sample) = TextSimmer => seconds = 600
        /\ TextOf(sample) = TextBake => seconds = 3600
        /\ TextOf(sample) = TextMarinate => seconds = 600
        /\ TextOf(sample) = TextSalt => seconds = NoDuration

\* "Marinate for 10-15 mins" has been extracted.
C18_Witness ==
    /\ Extracted
    /\ TextOf(sample) = TextMarinate
    /\ seconds = 600

TextHours15 == <<"1", ".", "5", " ", "h", "o", "u", "r", "s">>
TextHrsOven == <<"1", ".", "5", " ", "h", "r", "s", " ", "i", "n", " ", "t", "h", "e", " ", "o", "v", "e", "n">>

\* C19: a number written with a decimal point is converted as a whole: for
\* a text with one occurrence "n.5 unit" the result is (n + 1/2) times 60
\* for a minute word, times 3600 for an hour word; "1.5 hours" and "1.5 hrs
\* in the oven" give 5400.
C19_Fractions ==
    Extracted =>
        /\ ( /\ Len(sample.occs) = 1
             /\ sample.occs[1].frac # <<>>
             /\ sample.occs[1].range = <<>>
             /\ sample.occs[1].unit.family \in {"minute", "hour"} ) =>
                LET o == sample.occs[1]
                IN  seconds = o.n * SecondsPerUnit(o) + SecondsPerUnit(o) \div 2
        /\ TextOf(sample) = TextHours15 => seconds = 5400
        /\ TextOf(sample) = TextHrsOven => seconds = 5400

\* The occurrences of a sample whose word is a minute or an hour word.
Qualifying(s) ==
    {k \in 1..Len(s.occs) : s.occs[k].unit.family \in {"minute", "hour"}}

\* C20: for a text of whole numbers the result is the duration of the
\* first occurrence in the text that has a minute or an hour word, whatever
\* follows it; a number with no unit word next to it, or followed by a word
\* that only begins with the letters of a unit ("minced", "hourly"), is no
\* occurrence, and a text without any occurrence has no duration.
C20_FirstOccurrence ==
    (Extracted /\ \A k \in 1..Len(sample.occs) : sample.occs[k].frac = <<>>) =>
        IF Qualifying(sample) = {}
        THEN seconds = NoDuration
        ELSE LET k == CHOOSE x \in Qualifying(sample) :
                          \A y \in Qualifying(sample) : x <= y
                 o == sample.occs[k]
             IN  seconds = o.n * SecondsPerUnit(o)

\* The occurrence of the sample with a word of the family, where the sample
\* holds one minute and one hour occurrence.
OccurrenceOf(s, family) ==
    s.occs[CHOOSE k \in 1..Len(s.occs) : s.occs[k].unit.family = family]

MinuteAndHour(s) ==
    /\ Len(s.occs) = 2
    /\ {s.occs[1].unit.family, s.occs[2].unit.family} = {"minute", "hour"}
    /\ s.occs[1].frac = <<>> /\ s.occs[2].frac = <<>>

\* C21: for a text with one minute occurrence and one hour occurrence the
\* result is the minute one's number times 60, whether the minute or the
\* hour occurrence comes first.
C21_MinutesFirst ==
    (Extracted /\ MinuteAndHour(sample)) =>
        seconds = OccurrenceOf(sample, "minute").n * 60

\* The hour occurrence stands first in the text and the minutes are returned.
C21_Witness ==
    /\ Extracted
    /\ MinuteAndHour(sample)
    /\ sample.occs[1].unit.family = "hour"
    /\ sample.occs[1].n = 1
    /\ seconds = 600

(***************************************************************************)
(* Properties of stepIngredients and the checklist                         *)
(***************************************************************************)

\* Word w stands somewhere in text t, letter case aside.
CIContains(t, w) ==
    \E k \in 0..(Len(t) - Len(w)) :
        \A j \in 1..Len(w) : LowerChar(t[k + j]) = LowerChar(w[j])

\* The step text references the ingredient: by its whole name, or by one
\* of its words of four characters or more.
Referenced(n, t) ==
    \/ CIContains(t, NameOf(n))
    \/ \E i \in 1..Len(n.words) : Len(n.words[i]) >= 4 /\ CIContains(t, n.words[i])

MatchedIndexes == {matched[k].originalIndex : k \in 1..Len(matched)}

ChickenBreast == [words |-> <<WordChicken, WordBreast>>, sep |-> " "]
Salt == [words |-> <<WordSalt>>, sep |-> " "]

\* C22: the matcher returns the ingredients the step text references by
\* whole name or by a word of at least four characters, and no others; for
\* [Chicken Breast, Salt], "Season the chicken with salt" matches both and
\* "Add the broth" matches neither.
C22_Matcher ==
    op # "init" =>
        /\ \A i \in 1..Len(dish.ingredients) :
            (i - 1 \in MatchedIndexes) <=> Referenced(dish.ingredients[i], dish.text)
        /\ (dish.ingredients = <<ChickenBreast, Salt>> /\ dish.text = TextSeason) =>
                MatchedIndexes = {0, 1}
        /\ (dish.ingredients = <<ChickenBreast, Salt>> /\ dish.text = TextBroth) =>
                matched = <<>>

\* "Season the chicken with salt" has been matched against [Chicken Breast,
\* Salt].
C22_Witness ==
    /\ op = "stepIngredients"
    /\ dish.ingredients = <<ChickenBreast, Salt>>
    /\ dish.text = TextSeason
    /\ Len(matched) = 2

\* C23: the matcher's result lists ingredients of the recipe in the order
\* of the recipe's list, each with its position in that list as
\* originalIndex; a click on an entry of the checklist changes the checked
\* set by the key of (current step, originalIndex of the entry) and by
\* nothing else, and the checked set only ever holds keys of that kind, so
\* what is checked for an ingredient does not depend on which other
\* ingredients the step matched.
C23_OriginalIndex ==
    /\ [](\A k \in 1..Len(matched) :
            /\ matched[k].originalIndex \in 0..(Len(dish.ingredients) - 1)
            /\ matched[k].name = NameOf(dish.ingredients[matched[k].originalIndex + 1])
            /\ k > 1 => matched[k - 1].originalIndex < matched[k].originalIndex)
    /\ [](checkedItems \subseteq {ItemKey(currentStepIndex, i) : i \in MatchedIndexes})
    /\ [][op' = "toggleIngredientCheck" =>
            \E i \in MatchedIndexes :
                LET key == ItemKey(currentStepIndex, i)
                IN  /\ checkedItems' \ {key} = checkedItems \ {key}
                    /\ (key \in checkedItems') # (key \in checkedItems)]_vars

\* The only entry of the checklist is the third ingredient of its list, and
\* it is the one checked.
C23_Witness ==
    /\ op = "toggleIngredientCheck"
    /\ Len(matched) = 1
    /\ matched[1].originalIndex = 2
    /\ checkedItems = {ItemKey(currentStepIndex, 2)}

(***************************************************************************)
(* Properties of the detail view                                           *)
(***************************************************************************)

\* C24: while the detail view is open the selected serving count is an
\* integer from 1 to 20, from the moment the view opens for a recipe of any
\* base serving count and after every +1 / -1 change.
C24_ServingsRange ==
    isOpen => currentServings \in 1..20

\* Whether the leading numbers of two parsed amounts are the same number.
SameNumber(p, q) == p.num * q.den = q.num * p.den

\* Whether the leading numbers of two parsed amounts differ by at most 0.05.
WithinRounding(p, q) ==
    LET d == p.num * q.den - q.num * p.den
    IN  20 * (IF d < 0 THEN -d ELSE d) <= p.den * q.den

\* Whether the scaler writes the number without rounding: a number of
\* quarters or of tenths.
WrittenExactly(p) == (4 * p.num) % p.den = 0 \/ (10 * p.num) % p.den = 0

JustOpened == isOpen /\ op = "open"

C26_NarratesViewedStep ==
    /\ (isCookMode /\ speaking # NotSpeaking) => speaking = currentStepIndex
    /\ ~isCookMode => speaking = NotSpeaking

\* Whether a sequence holds no value twice.
NoDuplicates(list) ==
    \A i, j \in 1..Len(list) : list[i] = list[j] => i = j

\* The list without its k-th entry.
Without(list, k) == SubSeq(list, 1, k - 1) \o SubSeq(list, k + 1, Len(list))

\* C30: the entered ingredients never hold a string twice, nor an empty or
\* untrimmed one; adding a blank value or one the list has (after trimming)
\* leaves the list, the input box and the error as they are, any other
\* value is appended trimmed; removing an ingredient removes that entry only.
C30_IngredientList ==
    /\ [](/\ NoDuplicates(ingredients)
          /\ \A i \in 1..Len(ingredients) :
              /\ ingredients[i] # <<>>
              /\ ingredients[i][1] \notin Whitespace
              /\ ingredients[i][Len(ingredients[i])] \notin Whitespace)
    /\ [][/\ op' = "addIngredient" =>
              IF \/ \A k \in 1..Len(arg'.val) : arg'.val[k] \in Whitespace
                 \/ \E i \in 1..Len(ingredients) :
                      \E a, b \in 0..Len(arg'.val) :
                          /\ a + Len(ingredients[i]) + b = Len(arg'.val)
                          /\ \A k \in 1..a : arg'.val[k] \in Whitespace
                          /\ \A k \in 1..b : arg'.val[Len(arg'.val) + 1 - k] \in Whitespace
                          /\ ingredients[i] = SubSeq(arg'.val, a + 1, Len(arg'.val) - b)
              THEN UNCHANGED <<ingredients, inputVal, error>>
              ELSE /\ Len(ingredients') = Len(ingredients) + 1
                   /\ SubSeq(ingredients', 1, Len(ingredients)) = ingredients
                   /\ inputVal' = <<>>
                   /\ error' = NoError
          /\ op' = "removeIngredient" =>
              \E k \in 1..Len(ingredients) :
                  /\ ingredients[k] = arg'.val
                  /\ ingredients' = Without(ingredients, k)]_vars

C30_Witness ==
    /\ op = "addIngredient"
    /\ arg = [val |-> <<" ">> \o WordSalt \o <<" ">>]
    /\ ingredients = <<WordSaltLower, WordSalt, WordEgg>>
    /\ inputVal = <<" ">> \o WordSalt \o <<" ">>
    /\ error = ErrorFailed

\* C27: a generation that was started ends, by success or by failure, with
\* loading = false; loading is true only while a request is outstanding;
\* after a failure the recipe list is empty and the error is set, after a
\* success the error is null; handleGenerate on an empty ingredient list
\* sets the error and starts no request, leaving loading and the recipe
\* list as they are.
C27_Generation ==
    /\ [](/\ loading => request # NoRequest
          /\ op = "generate" => loading /\ request.ingredients # <<>>
          /\ op \in {"generated", "failed"} => ~loading /\ request = NoRequest
          /\ op = "failed" => recipes = <<>> /\ error = ErrorFailed
          /\ op = "generated" => error = NoError)
    /\ [][op' = "generateEmpty" =>
              /\ ingredients = <<>>
              /\ error' = ErrorEmpty
              /\ UNCHANGED <<loading, recipes, request>>]_vars
    /\ (op = "generate") ~> (op \in {"generated", "failed"} /\ ~loading)

C27_Witness ==
    /\ op = "failed"
    /\ ~loading
    /\ request = NoRequest
    /\ ingredients # <<>>
    /\ inputVal # <<>>

\* The ids of a recipe list, in its order.
IdsOf(list) == [i \in 1..Len(list) |-> list[i].id]

\* C28: toggling save for a recipe removes the saved recipe with its id,
\* the others keeping their order, or appends the recipe when no saved
\* recipe has its id; the cookbook never holds two recipes with one id, and
\* after every toggle the stored copy is the list in memory.
C28_ToggleSave ==
    /\ [](/\ NoDuplicates(IdsOf(savedRecipes))
          /\ op = "toggleSaveRecipe" => parse(persisted) = savedRecipes)
    /\ [][op' = "toggleSaveRecipe" =>
              IF arg'.recipe.id \in { savedRecipes[k].id : k \in 1..Len(savedRecipes) }
              THEN \E k \in 1..Len(savedRecipes) :
                      /\ savedRecipes[k].id = arg'.recipe.id
                      /\ savedRecipes' = Without(savedRecipes, k)
              ELSE savedRecipes' = Append(savedRecipes, arg'.recipe)]_vars

C28_Witness ==
    /\ op = "toggleSaveRecipe"
    /\ arg = [recipe |-> [id |-> 1, servings |-> 4]]
    /\ savedRecipes = <<[id |-> 2, servings |-> 2]>>
    /\ persisted = <<<<2, 2>>>>

\* The recipe in the slot of a meal plan, NoArg when it holds none.
Slot(plan, day, type) ==
    IF day \in DOMAIN plan /\ type \in DOMAIN plan[day]
    THEN [recipe |-> plan[day][type]] ELSE NoArg

\* C29: updating the meal plan for a day and a meal type sets that slot to
\* the recipe, or empties it, and leaves every other slot as it was; no
\* day of the plan is without a meal, the day's entry going with its last
\* meal; clearing a slot that holds nothing leaves the plan as it was.
C29_MealPlanSlot ==
    /\ [](\A day \in DOMAIN mealPlan :
              /\ day \in Days
              /\ DOMAIN mealPlan[day] # {}
              /\ DOMAIN mealPlan[day] \subseteq MealTypes)
    /\ [][op' \in {"assign", "clear"} =>
              /\ \A day \in Days, type \in MealTypes :
                    Slot(mealPlan', day, type) =
                        IF day = arg'.day /\ type = arg'.type
                        THEN IF op' = "assign" THEN [recipe |-> arg'.recipe] ELSE NoArg
                        ELSE Slot(mealPlan, day, type)
              /\ (op' = "clear" /\ Slot(mealPlan, arg'.day, arg'.type) = NoArg)
                    => mealPlan' = mealPlan]_vars

C29_Witness ==
    /\ op = "clear"
    /\ arg = [day |-> "Monday", type |-> "Dinner"]
    /\ DOMAIN mealPlan = {"Tuesday"}
    /\ DOMAIN mealPlan["Tuesday"] = {"Breakfast", "Lunch"}

====
